---- MODULE Spec2Model ----
(***************************************************************************)
(* Object lifecycle coordinator of GCPBucketOps: FileService (upload,      *)
(* delete, get_all_expired, remove_all_expired) over the blob store and    *)
(* the metadata table, the request-scoped database session, and the        *)
(* periodic cleanup task started by the application's lifespan.            *)
(*                                                                         *)
(* One step of the model is the code a coroutine runs between two awaits:  *)
(* the google-cloud-storage calls are synchronous, the SQLAlchemy queries  *)
(* and the commit at the end of the session scope are awaits.              *)
(***************************************************************************)
EXTENDS Integers, Sequences, FiniteSets, TLC

\* ------------------------------------------------------------------ bounds
\* The clock counts days and saturates at MaxNow.
MaxNow == 8
\* Days that pass in one step of the clock.
TickDays == 8
\* Rows the metadata table can hold.
MaxRows == 2
\* Concurrent request handlers.
Tasks == {"t1", "t2"}
\* The request handler that runs beside the cleanup task in FairCleanupSpec.
OneTask == {"t1"}
\* Objects put into the bucket by other means than upload, and the object
\* names of the bucket in the order in which the bucket lists them.
OtherBlobs == {"a.txt", "z.txt"}
SortedNames == <<"a.txt", "r.pdf", "z.txt">>
\* Content types that callers pass to signed_upload_url.
UrlContentTypes == {"application/pdf", "text/plain"}
\* Page sizes that callers pass to get_all.
MaxResults == 3
\* File names without extension that callers pass to delete.
Stems == {"r"}
\* Content types that callers pass (a member of the enum).
ContentTypes == {"application/pdf"}

\* ------------------------------------------------------- program constants
BUCKET_NAME == "bucket"
\* gcs_settings.EXPIRATION_SECONDS, the configured lifetime of a signed URL.
EXPIRATION_SECONDS == 3600
\* timedelta(days=7) in FileModel.create
RetentionDays == 7
\* asyncio.sleep(60 * 60 * 24) in periodic_cleanup, in days
SleepDays == 1

\* A nullable column: <<>> is NULL, <<v>> holds v.
NULL == <<>>
Some(v) == <<v>>

Min(a, b) == IF a < b THEN a ELSE b

\* ContentType.file_extension: mapping.get(self.value, "")
\* The mapping without its entry for application/pdf.
file_extension_NoPdfEntry(ct) ==
    CASE ct = "text/plain" -> ".txt"
      [] ct = "application/json" -> ".json"
      [] OTHER -> ""

file_extension(ct) ==
    CASE ct = "application/pdf" -> ".pdf"
      [] ct = "text/plain" -> ".txt"
      [] ct = "application/json" -> ".json"
      [] OTHER -> ""

\* f"{file_name}{content_type.file_extension()}" in delete and generate_url
ResolvedName(file_name, ct) == file_name \o file_extension(ct)

\* The names of the files that callers upload (UploadFile.filename), under
\* which upload stores blob and row.
FileNames == {"r.pdf"}

\* Backend failures an operation can meet; "none" is the backend answering.
Faults == {"none", "gcs", "db", "audit", "commit"}
NoFaults == {"none"}

\* Python: every exception the backends and the code raise derives from
\* Exception, except asyncio.CancelledError, which derives from BaseException.
ExceptionKinds == {"BackendError", "AttributeError"}

VARIABLES
    now,          \* the clock, in days
    blobs,        \* names of the blobs in the bucket
    rows,         \* the files table, in insertion order; a row's id is its index
    task,         \* per request handler: position, call and session contents
    sched,        \* the cleanup task: position; outcome of the pass it sleeps after,
                  \* or the await it was cancelled in
    shutdown,     \* the lifespan has exited and cancelled the cleanup task
    deleteCalls,  \* per name: delete calls past their blob step since the last upload step
    gcf           \* the cleanup function: position, what it fetched, the functions
                  \* it has called, and its response

vars == <<now, blobs, rows, task, sched, shutdown, deleteCalls, gcf>>

\* ------------------------------------------------------------ the entities
\* FileModel.create: status as given, expires_at seven days from now.
FileModelCreate(file_name, gcs_uri, status, t) ==
    [file_name |-> file_name,
     gcs_uri |-> gcs_uri,
     bucket_name |-> BUCKET_NAME,
     status |-> status,
     created_at |-> NULL,
     expires_at |-> t + RetentionDays,
     deleted_at |-> NULL]

\* created_at has server_default=func.now(): the INSERT stores the time at
\* which its transaction began, which is when the handler issued its first
\* statement.
server_default_now(begun) == Some(begun)

\* where(file_name == name, deleted_at IS NULL, bucket_name == BUCKET_NAME)
LiveRowIds(rs, name) ==
    {i \in DOMAIN rs : /\ rs[i].file_name = name
                       /\ rs[i].deleted_at = NULL
                       /\ rs[i].bucket_name = BUCKET_NAME}

\* The expiry scan without the deleted_at IS NULL condition.
ExpiredLiveIds_NoDeletedFilter(rs, t) ==
    {i \in DOMAIN rs : rs[i].expires_at < t}

\* where(expires_at < now, deleted_at IS NULL)
ExpiredLiveIds(rs, t) ==
    {i \in DOMAIN rs : rs[i].expires_at < t /\ rs[i].deleted_at = NULL}

\* where(id IN ids)
RowsByIds(rs, ids) == ids \cap DOMAIN rs

\* upload_to_gcs: the blob is written and its URI returned; a failure is
\* logged and the function returns None.
upload_to_gcs(bs, name, ok) ==
    IF ok
    THEN [blobs |-> bs \cup {name}, uri |-> Some("gs://" \o BUCKET_NAME \o "/" \o name)]
    ELSE [blobs |-> bs, uri |-> NULL]

\* gcs_uri is declared nullable=False: the INSERT of a row without it fails.
Insertable(new) == new = <<>> \/ new[1].gcs_uri # NULL

\* A flush that issues DELETE for the changed entities instead of UPDATE.
Flush_HardDelete(rs, new, upd, ts) ==
    LET Kept(k) == k \notin upd
        keep == SelectSeq([k \in DOMAIN rs |-> k], Kept)
    IN [k \in 1..Len(keep) |-> rs[keep[k]]] \o new

\* A flush that writes deleted_at and leaves status as it was.
Flush_KeepsStatus(rs, new, upd, ts) ==
    LET updated == [i \in DOMAIN rs |->
                       IF i \in upd
                       THEN [rs[i] EXCEPT !.deleted_at = Some(ts)]
                       ELSE rs[i]]
    IN updated \o new

\* The flush at commit: INSERT the added row, UPDATE status and deleted_at of
\* every entity the session changed.
Flush(rs, new, upd, ts) ==
    LET updated == [i \in DOMAIN rs |->
                       IF i \in upd
                       THEN [rs[i] EXCEPT !.status = "DELETED", !.deleted_at = Some(ts)]
                       ELSE rs[i]]
    IN updated \o new

\* What a call that only reads was asked and hands back: the operation, its
\* arguments, the signed URL (what it was signed for), valid_for_seconds, the
\* page of files and its token.
Reply(op, asked, url, valid_for_seconds, files, next_page_token) ==
    [op |-> op, asked |-> asked, url |-> url,
     valid_for_seconds |-> valid_for_seconds,
     files |-> files, next_page_token |-> next_page_token]
NoReply == Reply("", <<>>, NULL, NULL, <<>>, NULL)

\* blob.generate_signed_url(version="v4", expiration=..., method=...).
generate_signed_url(name, expiration, method, content_type) ==
    [name |-> name, expiration |-> expiration, method |-> method,
     content_type |-> content_type]

\* A handler between two calls: the name its last call resolved and what that
\* call returned or raised.
Idle(name, result) ==
    [pc |-> "idle", name |-> name, result |-> result, new |-> <<>>, upd |-> {}, ts |-> 0,
     reply |-> NoReply]

\* A handler suspended in an await, with what its session holds.
InFlight(pc, name, result, new, upd, ts) ==
    [pc |-> pc, name |-> name, result |-> result, new |-> new, upd |-> upd, ts |-> ts,
     reply |-> NoReply]

\* What delete_expired_files returns: a body and a status.
Response(message, deleted_files, not_found_files, status) ==
    [message |-> message, deleted_files |-> deleted_files,
     not_found_files |-> not_found_files, total_deleted |-> Len(deleted_files),
     status |-> status]
NoResponse == Response("", <<>>, <<>>, 0)

\* A run of the cleanup function: where it stands, the expired_files dict, the
\* functions it has called so far, and what it returned.
GcfRun(pc, expired_files, calls, response) ==
    [pc |-> pc, expired_files |-> expired_files, calls |-> calls, response |-> response]

\* Counting delete calls: none, one, many.
OneMore(c) == IF c = "none" THEN "one" ELSE "many"

Uploading == {u \in Tasks : task[u].pc = "upload_query" \/ task[u].new # <<>>}

Init ==
    /\ now = 0
    /\ blobs = {}
    /\ rows = <<>>
    /\ task = [t \in Tasks |-> Idle("", "none")]
    /\ sched = [pc |-> "due", last |-> "none"]
    /\ shutdown = FALSE
    /\ deleteCalls = [n \in FileNames |-> "none"]
    /\ gcf = GcfRun("ready", NULL, <<>>, NoResponse)

\* ------------------------------------------------------------- FileService
\* upload without the blob.exists() check.
UploadStart_NoBlobCheck(t, f, fault) ==
    /\ task[t].pc = "idle"
    /\ (f \in blobs) \/ (Len(rows) + Cardinality(Uploading) < MaxRows)
    /\ task' = [task EXCEPT ![t] =
                   IF fault = "gcs" THEN Idle(f, "GCSUploadException")
                   ELSE InFlight("upload_query", f, "pending", <<>>, {}, now)]
    /\ deleteCalls' = [deleteCalls EXCEPT ![f] = "none"]
    /\ UNCHANGED <<now, blobs, rows, sched, shutdown, gcf>>

\* upload, to its first await: blob.exists(), then the SELECT is issued, which
\* begins the transaction (its time is kept in ts).
UploadStart(t, f, fault) ==
    /\ task[t].pc = "idle"
    /\ (f \in blobs) \/ (Len(rows) + Cardinality(Uploading) < MaxRows)
    /\ task' = [task EXCEPT ![t] =
                   IF fault = "gcs" THEN Idle(f, "GCSUploadException")
                   ELSE IF f \in blobs THEN Idle(f, "GCSFileExistsException")
                   ELSE InFlight("upload_query", f, "pending", <<>>, {}, now)]
    /\ deleteCalls' = [deleteCalls EXCEPT ![f] = "none"]
    /\ UNCHANGED <<now, blobs, rows, sched, shutdown, gcf>>

\* upload that takes a live row without a blob for a leftover and goes on.
UploadResume_ReplacesLiveRow(t, fault) ==
    /\ task[t].pc = "upload_query"
    /\ LET name == task[t].name
           up == upload_to_gcs(blobs, name, fault # "gcs")
           created == FileModelCreate(name, up.uri, "UPLOADED", now)
           file_obj == [created EXCEPT !.created_at = server_default_now(task[t].ts)]
       IN IF fault = "db"
          THEN /\ task' = [task EXCEPT ![t] = Idle(name, "GCSUploadException")]
               /\ blobs' = blobs
          ELSE IF LiveRowIds(rows, name) # {} /\ name \in blobs
          THEN /\ task' = [task EXCEPT ![t] = Idle(name, "DBFileExistsException")]
               /\ blobs' = blobs
          ELSE /\ blobs' = up.blobs
               /\ task' = [task EXCEPT ![t] =
                              IF fault = "audit"
                              THEN Idle(name, "GCSUploadException")
                              ELSE InFlight("commit", name, "FileModel",
                                            <<file_obj>>, {}, 0)]
    /\ deleteCalls' = [deleteCalls EXCEPT ![task[t].name] = "none"]
    /\ UNCHANGED <<now, rows, sched, shutdown, gcf>>

\* upload whose session is committed although the audit event failed.
UploadResume_CommitsOnFailure(t, fault) ==
    /\ task[t].pc = "upload_query"
    /\ LET name == task[t].name
           up == upload_to_gcs(blobs, name, fault # "gcs")
           created == FileModelCreate(name, up.uri, "UPLOADED", now)
           file_obj == [created EXCEPT !.created_at = server_default_now(task[t].ts)]
       IN IF fault = "db"
          THEN /\ task' = [task EXCEPT ![t] = Idle(name, "GCSUploadException")]
               /\ blobs' = blobs
          ELSE IF LiveRowIds(rows, name) # {}
          THEN /\ task' = [task EXCEPT ![t] = Idle(name, "DBFileExistsException")]
               /\ blobs' = blobs
          ELSE /\ blobs' = up.blobs
               /\ task' = [task EXCEPT ![t] =
                              InFlight("commit", name,
                                       IF fault = "audit" THEN "GCSUploadException"
                                                          ELSE "FileModel",
                                       <<file_obj>>, {}, 0)]
    /\ deleteCalls' = [deleteCalls EXCEPT ![task[t].name] = "none"]
    /\ UNCHANGED <<now, rows, sched, shutdown, gcf>>

\* upload that writes the blob before it looks at the SELECT's answer.
UploadResume_WritesBeforeRowCheck(t, fault) ==
    /\ task[t].pc = "upload_query"
    /\ LET name == task[t].name
           up == upload_to_gcs(blobs, name, fault # "gcs")
           created == FileModelCreate(name, up.uri, "UPLOADED", now)
           file_obj == [created EXCEPT !.created_at = server_default_now(task[t].ts)]
       IN IF fault = "db"
          THEN /\ task' = [task EXCEPT ![t] = Idle(name, "GCSUploadException")]
               /\ blobs' = blobs
          ELSE IF LiveRowIds(rows, name) # {}
          THEN /\ task' = [task EXCEPT ![t] = Idle(name, "DBFileExistsException")]
               /\ blobs' = up.blobs
          ELSE /\ blobs' = up.blobs
               /\ task' = [task EXCEPT ![t] =
                              IF fault = "audit"
                              THEN Idle(name, "GCSUploadException")
                              ELSE InFlight("commit", name, "FileModel",
                                            <<file_obj>>, {}, 0)]
    /\ deleteCalls' = [deleteCalls EXCEPT ![task[t].name] = "none"]
    /\ UNCHANGED <<now, rows, sched, shutdown, gcf>>

\* upload that looks for the blob once more before it writes it.
UploadResume_RechecksBlob(t, fault) ==
    /\ task[t].pc = "upload_query"
    /\ LET name == task[t].name
           up == upload_to_gcs(blobs, name, fault # "gcs")
           created == FileModelCreate(name, up.uri, "UPLOADED", now)
           file_obj == [created EXCEPT !.created_at = server_default_now(task[t].ts)]
       IN IF fault = "db"
          THEN /\ task' = [task EXCEPT ![t] = Idle(name, "GCSUploadException")]
               /\ blobs' = blobs
          ELSE IF LiveRowIds(rows, name) # {}
          THEN /\ task' = [task EXCEPT ![t] = Idle(name, "DBFileExistsException")]
               /\ blobs' = blobs
          ELSE IF name \in blobs
          THEN /\ task' = [task EXCEPT ![t] = Idle(name, "GCSFileExistsException")]
               /\ blobs' = blobs
          ELSE /\ blobs' = up.blobs
               /\ task' = [task EXCEPT ![t] =
                              IF fault = "audit"
                              THEN Idle(name, "GCSUploadException")
                              ELSE InFlight("commit", name, "FileModel",
                                            <<file_obj>>, {}, 0)]
    /\ deleteCalls' = [deleteCalls EXCEPT ![task[t].name] = "none"]
    /\ UNCHANGED <<now, rows, sched, shutdown, gcf>>

\* upload, from the SELECT's answer to its return: the live-row check, the blob
\* write, session.add and the audit event. Any exception other than the two
\* AlreadyExists ones becomes GCSUploadException, and the session rolls back.
UploadResume(t, fault) ==
    /\ task[t].pc = "upload_query"
    /\ LET name == task[t].name
           up == upload_to_gcs(blobs, name, fault # "gcs")
           created == FileModelCreate(name, up.uri, "UPLOADED", now)
           file_obj == [created EXCEPT !.created_at = server_default_now(task[t].ts)]
       IN IF fault = "db"
          THEN /\ task' = [task EXCEPT ![t] = Idle(name, "GCSUploadException")]
               /\ blobs' = blobs
          ELSE IF LiveRowIds(rows, name) # {}
          THEN /\ task' = [task EXCEPT ![t] = Idle(name, "DBFileExistsException")]
               /\ blobs' = blobs
          ELSE /\ blobs' = up.blobs
               /\ task' = [task EXCEPT ![t] =
                              IF fault = "audit"
                              THEN Idle(name, "GCSUploadException")
                              ELSE InFlight("commit", name, "FileModel",
                                            <<file_obj>>, {}, 0)]
    /\ deleteCalls' = [deleteCalls EXCEPT ![task[t].name] = "none"]
    /\ UNCHANGED <<now, rows, sched, shutdown, gcf>>

\* delete without the blob.delete() call.
DeleteStart_KeepsBlob(t, file_name, ct, fault) ==
    /\ task[t].pc = "idle"
    /\ LET name == ResolvedName(file_name, ct)
       IN IF fault = "gcs"
          THEN /\ task' = [task EXCEPT ![t] = Idle(name, "GCSRemoveException")]
               /\ UNCHANGED <<blobs, deleteCalls>>
          ELSE IF name \notin blobs
          THEN /\ task' = [task EXCEPT ![t] =
                              Idle(name, "GCSFileDoesNotExistsException")]
               /\ deleteCalls' = [deleteCalls EXCEPT ![name] = OneMore(@)]
               /\ blobs' = blobs
          ELSE /\ blobs' = blobs
               /\ deleteCalls' = [deleteCalls EXCEPT ![name] = OneMore(@)]
               /\ task' = [task EXCEPT ![t] =
                              InFlight("delete_query", name, "pending", <<>>, {}, 0)]
    /\ UNCHANGED <<now, rows, sched, shutdown, gcf>>

\* delete that goes on to the row when the blob is already gone.
DeleteStart_GoesOnWithoutBlob(t, file_name, ct, fault) ==
    /\ task[t].pc = "idle"
    /\ LET name == ResolvedName(file_name, ct)
       IN IF fault = "gcs"
          THEN /\ task' = [task EXCEPT ![t] = Idle(name, "GCSRemoveException")]
               /\ UNCHANGED <<blobs, deleteCalls>>
          ELSE /\ blobs' = blobs \ {name}
               /\ deleteCalls' = [deleteCalls EXCEPT ![name] = OneMore(@)]
               /\ task' = [task EXCEPT ![t] =
                              InFlight("delete_query", name, "pending", <<>>, {}, 0)]
    /\ UNCHANGED <<now, rows, sched, shutdown, gcf>>

\* delete, to its first await: blob.exists(), blob.delete(), then the SELECT
\* is issued.
DeleteStart(t, file_name, ct, fault) ==
    /\ task[t].pc = "idle"
    /\ LET name == ResolvedName(file_name, ct)
       IN IF fault = "gcs"
          THEN /\ task' = [task EXCEPT ![t] = Idle(name, "GCSRemoveException")]
               /\ UNCHANGED <<blobs, deleteCalls>>
          ELSE IF name \notin blobs
          THEN /\ task' = [task EXCEPT ![t] =
                              Idle(name, "GCSFileDoesNotExistsException")]
               /\ deleteCalls' = [deleteCalls EXCEPT ![name] = OneMore(@)]
               /\ blobs' = blobs
          ELSE /\ blobs' = blobs \ {name}
               /\ deleteCalls' = [deleteCalls EXCEPT ![name] = OneMore(@)]
               /\ task' = [task EXCEPT ![t] =
                              InFlight("delete_query", name, "pending", <<>>, {}, 0)]
    /\ UNCHANGED <<now, rows, sched, shutdown, gcf>>

\* delete, from the SELECT's answer to its return: session.scalar gives the
\* first live row of that name, which is marked DELETED in the session.
DeleteResume(t, fault) ==
    /\ task[t].pc = "delete_query"
    /\ LET name == task[t].name
           live == LiveRowIds(rows, name)
       IN IF fault = "db"
          THEN task' = [task EXCEPT ![t] = Idle(name, "GCSRemoveException")]
          ELSE IF live = {}
          THEN task' = [task EXCEPT ![t] = Idle(name, "DBFileDoesNotExistsException")]
          ELSE \E i \in live :
                  task' = [task EXCEPT ![t] =
                              InFlight("commit", name, "deleted", <<>>, {i}, now)]
    /\ UNCHANGED <<now, blobs, rows, sched, shutdown, deleteCalls, gcf>>

\* get_all_expired that deletes the blobs of the rows it finds.
GetAllExpired_DeletesBlobs(t, fault) ==
    /\ task[t].pc = "idle"
    /\ task' = [task EXCEPT ![t] =
                   IF fault = "db"
                   THEN Idle("", "DBError")
                   ELSE InFlight("commit", "", "ExpiredFilesResponse", <<>>,
                                 RowsByIds(rows, ExpiredLiveIds(rows, now)), now)]
    /\ blobs' = IF fault = "db" THEN blobs
                ELSE blobs \ {rows[i].file_name : i \in ExpiredLiveIds(rows, now)}
    /\ UNCHANGED <<now, rows, sched, shutdown, deleteCalls, gcf>>

\* get_all_expired: the expiry scan, then remove_all_expired on the ids found.
GetAllExpired(t, fault) ==
    /\ task[t].pc = "idle"
    /\ task' = [task EXCEPT ![t] =
                   IF fault = "db"
                   THEN Idle("", "DBError")
                   ELSE InFlight("commit", "", "ExpiredFilesResponse", <<>>,
                                 RowsByIds(rows, ExpiredLiveIds(rows, now)), now)]
    /\ UNCHANGED <<now, blobs, rows, sched, shutdown, deleteCalls, gcf>>

\* remove_all_expired(ids): every row whose id is listed is marked DELETED.
RemoveAllExpired(t, ids, fault) ==
    /\ task[t].pc = "idle"
    /\ task' = [task EXCEPT ![t] =
                   IF fault = "db"
                   THEN Idle("", "DBError")
                   ELSE InFlight("commit", "", "removed", <<>>,
                                 RowsByIds(rows, ids), now)]
    /\ UNCHANGED <<now, blobs, rows, sched, shutdown, deleteCalls, gcf>>

\* db_session: leaving session.begin() commits what the handler left in the
\* session; a failing commit leaves the table as it was.
Commit(t, fault) ==
    /\ task[t].pc = "commit"
    /\ LET ok == fault # "commit" /\ Insertable(task[t].new)
       IN /\ rows' = IF ok
                     THEN Flush(rows, task[t].new, task[t].upd, task[t].ts)
                     ELSE rows
          /\ task' = [task EXCEPT ![t] =
                         Idle(task[t].name, IF ok THEN task[t].result ELSE "CommitError")]
    /\ UNCHANGED <<now, blobs, sched, shutdown, deleteCalls, gcf>>

\* A handler that has run a call that only reads: what it was asked and what
\* it handed back or raised.
Answered(name, result, reply) == [Idle(name, result) EXCEPT !.reply = reply]
\* The record of a call that raised.
Raised(op, asked) == Reply(op, asked, NULL, NULL, <<>>, NULL)

\* generate_url that looks for the live row of the name as well.
GenerateUrl_ChecksRow(t, file_name, ct, fault) ==
    /\ task[t].pc = "idle"
    /\ LET name == ResolvedName(file_name, ct)
           asked == <<file_name, ct>>
           url == generate_signed_url(name, EXPIRATION_SECONDS, "GET", NULL)
       IN task' = [task EXCEPT ![t] =
                      IF fault = "gcs"
                      THEN Answered(name, "GenerateURLException",
                                    Raised("generate_url", asked))
                      ELSE IF name \notin blobs \/ LiveRowIds(rows, name) = {}
                      THEN Answered(name, "GCSFileDoesNotExistsException",
                                    Raised("generate_url", asked))
                      ELSE Answered(name, "DownloadURLResponse",
                                    Reply("generate_url", asked, Some(url),
                                          Some(EXPIRATION_SECONDS), <<>>, NULL))]
    /\ UNCHANGED <<now, blobs, rows, sched, shutdown, deleteCalls, gcf>>

\* generate_url: no await, so one step. blob.exists(), then the GET URL.
GenerateUrl(t, file_name, ct, fault) ==
    /\ task[t].pc = "idle"
    /\ LET name == ResolvedName(file_name, ct)
           asked == <<file_name, ct>>
           url == generate_signed_url(name, EXPIRATION_SECONDS, "GET", NULL)
       IN task' = [task EXCEPT ![t] =
                      IF fault = "gcs"
                      THEN Answered(name, "GenerateURLException",
                                    Raised("generate_url", asked))
                      ELSE IF name \notin blobs
                      THEN Answered(name, "GCSFileDoesNotExistsException",
                                    Raised("generate_url", asked))
                      ELSE Answered(name, "DownloadURLResponse",
                                    Reply("generate_url", asked, Some(url),
                                          Some(EXPIRATION_SECONDS), <<>>, NULL))]
    /\ UNCHANGED <<now, blobs, rows, sched, shutdown, deleteCalls, gcf>>

\* signed_upload_url signing for the method of generate_url.
SignedUploadUrl_SignsGet(t, file_name, ct, fault) ==
    /\ task[t].pc = "idle"
    /\ LET asked == <<file_name, ct>>
           url == generate_signed_url(file_name, EXPIRATION_SECONDS, "GET", Some(ct))
       IN task' = [task EXCEPT ![t] =
                      IF fault = "gcs"
                      THEN Answered(file_name, "BackendError",
                                    Raised("signed_upload_url", asked))
                      ELSE Answered(file_name, "UploadURLResponse",
                                    Reply("signed_upload_url", asked, Some(url),
                                          Some(EXPIRATION_SECONDS), <<>>, NULL))]
    /\ UNCHANGED <<now, blobs, rows, sched, shutdown, deleteCalls, gcf>>

\* signed_upload_url that refuses a name whose blob exists, as upload does.
SignedUploadUrl_RefusesExisting(t, file_name, ct, fault) ==
    /\ task[t].pc = "idle"
    /\ LET asked == <<file_name, ct>>
           url == generate_signed_url(file_name, EXPIRATION_SECONDS, "PUT", Some(ct))
       IN task' = [task EXCEPT ![t] =
                      IF fault = "gcs"
                      THEN Answered(file_name, "BackendError",
                                    Raised("signed_upload_url", asked))
                      ELSE IF file_name \in blobs
                      THEN Answered(file_name, "GCSFileExistsException",
                                    Raised("signed_upload_url", asked))
                      ELSE Answered(file_name, "UploadURLResponse",
                                    Reply("signed_upload_url", asked, Some(url),
                                          Some(EXPIRATION_SECONDS), <<>>, NULL))]
    /\ UNCHANGED <<now, blobs, rows, sched, shutdown, deleteCalls, gcf>>

\* signed_upload_url: no await, and no try: what storage.Client() or the
\* signing raises leaves the method as it is. The name is taken as passed.
SignedUploadUrl(t, file_name, ct, fault) ==
    /\ task[t].pc = "idle"
    /\ LET asked == <<file_name, ct>>
           url == generate_signed_url(file_name, EXPIRATION_SECONDS, "PUT", Some(ct))
       IN task' = [task EXCEPT ![t] =
                      IF fault = "gcs"
                      THEN Answered(file_name, "BackendError",
                                    Raised("signed_upload_url", asked))
                      ELSE Answered(file_name, "UploadURLResponse",
                                    Reply("signed_upload_url", asked, Some(url),
                                          Some(EXPIRATION_SECONDS), <<>>, NULL))]
    /\ UNCHANGED <<now, blobs, rows, sched, shutdown, deleteCalls, gcf>>

\* Place of an object name in the bucket's listing order.
Pos(n) == CHOOSE k \in 1..Len(SortedNames) : SortedNames[k] = n

\* bucket.list_blobs(page_token, max_results), iterated to its end: the
\* objects after the token in listing order, max_results of them at most, and
\* the iterator's next_page_token, set when the listing has more.
list_blobs(bs, page_token, max_results) ==
    LET After(n) == n \in bs /\ (page_token = NULL \/ Pos(n) > Pos(page_token[1]))
        rest == SelectSeq(SortedNames, After)
        page == SubSeq(rest, 1, Min(max_results, Len(rest)))
    IN [items |-> page,
        next_page_token |-> IF Len(rest) > max_results
                            THEN Some(page[Len(page)]) ELSE NULL]

\* get_all that reads next_page_token before it has run the iterator.
GetAll_TokenBeforeLoop(t, max_results, page_token, fault) ==
    /\ task[t].pc = "idle"
    /\ LET asked == <<max_results, page_token>>
           listed == list_blobs(blobs, page_token, max_results)
       IN task' = [task EXCEPT ![t] =
                      IF fault = "gcs"
                      THEN Answered("", "GCSDataFetchException", Raised("get_all", asked))
                      ELSE Answered("", "GetAllGCSData",
                                    Reply("get_all", asked, NULL, NULL,
                                          listed.items, NULL))]
    /\ UNCHANGED <<now, blobs, rows, sched, shutdown, deleteCalls, gcf>>

\* get_all: no await. Every blob the iterator gives goes into file_list, and
\* next_page_token is read after the loop.
GetAll(t, max_results, page_token, fault) ==
    /\ task[t].pc = "idle"
    /\ LET asked == <<max_results, page_token>>
           listed == list_blobs(blobs, page_token, max_results)
       IN task' = [task EXCEPT ![t] =
                      IF fault = "gcs"
                      THEN Answered("", "GCSDataFetchException", Raised("get_all", asked))
                      ELSE Answered("", "GetAllGCSData",
                                    Reply("get_all", asked, NULL, NULL,
                                          listed.items, listed.next_page_token))]
    /\ UNCHANGED <<now, blobs, rows, sched, shutdown, deleteCalls, gcf>>

\* ------------------------------------------------------- the cleanup task
\* A bare "except:" around the pass, which takes CancelledError too.
delete_old_files_except_bare(kind) == TRUE

\* No handler around the session scope.
periodic_cleanup_except_none(kind) == FALSE

\* delete_old_files: "except Exception" around the whole pass.
delete_old_files_except(kind) == kind \in ExceptionKinds

\* periodic_cleanup: "except Exception" around the session scope and the pass.
periodic_cleanup_except(kind) == kind \in ExceptionKinds

\* The loop with its sleep inside the try: a caught exception skips the sleep.
AfterRaise_SkipsSleep(kind, inner) ==
    IF (inner /\ delete_old_files_except(kind)) \/ periodic_cleanup_except(kind)
    THEN [pc |-> "due", last |-> "none"]
    ELSE IF kind = "CancelledError"
    THEN [pc |-> "cancelled", last |-> "query"]
    ELSE [pc |-> "crashed", last |-> "failed"]

\* Where the cleanup task stands after `kind` was raised in a pass, inside
\* delete_old_files' try (inner) or only inside periodic_cleanup's: a caught
\* exception is logged and the loop goes on to its sleep.
AfterRaise(kind, inner) ==
    IF (inner /\ delete_old_files_except(kind)) \/ periodic_cleanup_except(kind)
    THEN [pc |-> "sleep", last |-> "failed"]
    ELSE IF kind = "CancelledError"
    THEN [pc |-> "cancelled", last |-> "query"]
    ELSE [pc |-> "crashed", last |-> "failed"]

\* The SELECT without its where clause: the names of all rows.
ExpiredFileNames_AllRows(rs, t) ==
    LET ids == DOMAIN rs
        n == Cardinality(ids)
    IN {[k \in 1..n |-> rs[o[k]].file_name] :
           o \in {f \in [1..n -> ids] : \A a, b \in 1..n : a # b => f[a] # f[b]}}

\* session.scalars(select(FileModel.file_name)...).all(): the names, as
\* strings, of the expired live rows, in an order the query does not fix.
ExpiredFileNames(rs, t) ==
    LET ids == ExpiredLiveIds(rs, t)
        n == Cardinality(ids)
    IN {[k \in 1..n |-> rs[o[k]].file_name] :
           o \in {f \in [1..n -> ids] : \A a, b \in 1..n : a # b => f[a] # f[b]}}

\* "file.status = ..." where file is a str: AttributeError.
StrSetAttr(file) == "AttributeError"

\* for file in files: delete the blob if it exists (else a warning), then
\* assign status and deleted_at on `file`.
RECURSIVE SweepLoop(_, _)
SweepLoop(files, bs) ==
    IF files = <<>>
    THEN [blobs |-> bs, exc |-> "none"]
    ELSE LET file == Head(files)
             bs1 == IF file \in bs THEN bs \ {file} ELSE bs
         IN IF StrSetAttr(file) # "none"
            THEN [blobs |-> bs1, exc |-> StrSetAttr(file)]
            ELSE SweepLoop(Tail(files), bs1)

\* periodic_cleanup, loop top: a fresh session, the storage client, and the
\* expiry SELECT is issued.
SchedStart(fault) ==
    /\ sched.pc = "due"
    /\ sched' = IF fault = "db" THEN AfterRaise("BackendError", FALSE)
                ELSE IF fault = "gcs" THEN AfterRaise("BackendError", TRUE)
                ELSE [pc |-> "query", last |-> "none"]
    /\ UNCHANGED <<now, blobs, rows, task, shutdown, deleteCalls, gcf>>

\* delete_old_files from the SELECT's answer to the end of the pass, then the
\* session scope commits and the loop reaches its sleep.
SchedSweep(fault) ==
    /\ sched.pc = "query"
    /\ IF fault = "db"
       THEN /\ sched' = AfterRaise("BackendError", TRUE)
            /\ blobs' = blobs
       ELSE \E files \in ExpiredFileNames(rows, now) :
               LET res == SweepLoop(files, blobs)
               IN /\ blobs' = res.blobs
                  /\ sched' = IF res.exc # "none" THEN AfterRaise(res.exc, TRUE)
                              ELSE IF fault = "commit"
                              THEN AfterRaise("BackendError", FALSE)
                              ELSE [pc |-> "sleep", last |-> "ok"]
    /\ UNCHANGED <<now, rows, task, shutdown, deleteCalls, gcf>>

\* Days pass; a sleep of SleepDays that was under way is over.
Tick ==
    /\ now' = Min(now + TickDays, MaxNow)
    /\ sched' = IF sched.pc = "sleep" /\ TickDays >= SleepDays
                THEN [pc |-> "due", last |-> "none"]
                ELSE sched
    /\ UNCHANGED <<blobs, rows, task, shutdown, deleteCalls, gcf>>

\* lifespan exit: cleanup_task.cancel() raises CancelledError in the task at
\* the await it is suspended in: the SELECT of a pass (inside both try blocks),
\* the sleep (outside them), or before its first step.
Shutdown ==
    /\ ~shutdown
    /\ sched.pc \in {"due", "query", "sleep"}
    /\ shutdown' = TRUE
    /\ sched' = IF sched.pc = "query"
                THEN AfterRaise("CancelledError", TRUE)
                ELSE [pc |-> "cancelled", last |-> sched.pc]
    /\ UNCHANGED <<now, blobs, rows, task, deleteCalls, gcf>>

\* ------------------------------------------------- the cleanup function
\* A set of row ids as a list, in id order.
RECURSIVE IdList(_)
IdList(ids) ==
    IF ids = {} THEN <<>>
    ELSE LET m == CHOOSE i \in ids : \A j \in ids : i <= j
         IN <<m>> \o IdList(ids \ {m})

\* `not d` for a dict: true when d has no key.
Falsy(d) == DOMAIN d = {}

\* `except Exception as e: return {"error": str(e)}, 500`
Gcf500(run, calls) ==
    GcfRun("done", run.expired_files, calls, Response("error", <<>>, <<>>, 500))

\* delete_from_gcs: for each name, delete the blob if it exists and note it
\* as deleted, else as missing.
RECURSIVE delete_from_gcs(_, _, _, _)
delete_from_gcs(filenames, bs, deleted, missing) ==
    IF filenames = <<>>
    THEN [blobs |-> bs, deleted |-> deleted, missing |-> missing]
    ELSE LET file_name == Head(filenames)
         IN IF file_name \in bs
            THEN delete_from_gcs(Tail(filenames), bs \ {file_name},
                                 Append(deleted, file_name), missing)
            ELSE delete_from_gcs(Tail(filenames), bs, deleted,
                                 Append(missing, file_name))

\* delete_expired_files, to the answer of fetch_expired_files: the API runs
\* get_all_expired, which marks what it reports; the answer is made into the
\* dict of ids and names, and `if not expired_files` is tested on that dict.
GcfFetch(fault) ==
    /\ gcf.pc \in {"ready", "done"}
    /\ LET calls == <<"fetch_expired_files">>
           ids == IdList(ExpiredLiveIds(rows, now))
           expired_files == [id |-> ids,
                             fileName |-> [k \in DOMAIN ids |-> rows[ids[k]].file_name]]
       IN IF fault = "db"
          THEN /\ gcf' = Gcf500(GcfRun("done", NULL, calls, NoResponse), calls)
               /\ rows' = rows
          ELSE /\ rows' = Flush(rows, <<>>, ExpiredLiveIds(rows, now), now)
               /\ gcf' = IF Falsy(expired_files)
                         THEN GcfRun("done", Some(expired_files), calls,
                                     Response("No expired files to delete.",
                                              <<>>, <<>>, 200))
                         ELSE GcfRun("delete_from_gcs", Some(expired_files), calls,
                                     NoResponse)
    /\ UNCHANGED <<now, blobs, task, sched, shutdown, deleteCalls>>

\* delete_expired_files, the call of delete_from_gcs on the names; a failure
\* of the blob store ends the loop after the names handled so far.
GcfDeleteFromGcs(fault) ==
    /\ gcf.pc = "delete_from_gcs"
    /\ LET calls == Append(gcf.calls, "delete_from_gcs")
           filenames == gcf.expired_files[1].fileName
       IN IF fault = "gcs"
          THEN \E k \in 0..Len(filenames) :
                  /\ blobs' = delete_from_gcs(SubSeq(filenames, 1, k), blobs,
                                              <<>>, <<>>).blobs
                  /\ gcf' = Gcf500(gcf, calls)
          ELSE LET res == delete_from_gcs(filenames, blobs, <<>>, <<>>)
               IN /\ blobs' = res.blobs
                  /\ gcf' = GcfRun("delete_from_database", gcf.expired_files, calls,
                                   Response("", res.deleted, res.missing, 0))
    /\ UNCHANGED <<now, rows, task, sched, shutdown, deleteCalls>>

\* delete_expired_files, the call of delete_from_database on the ids (the API
\* runs remove_all_expired), and the response.
GcfDeleteFromDatabase(fault) ==
    /\ gcf.pc = "delete_from_database"
    /\ LET calls == Append(gcf.calls, "delete_from_database")
           ids == gcf.expired_files[1].id
       IN IF fault = "db"
          THEN /\ gcf' = Gcf500(gcf, calls)
               /\ rows' = rows
          ELSE /\ rows' = Flush(rows, <<>>,
                                RowsByIds(rows, {ids[k] : k \in DOMAIN ids}), now)
               /\ gcf' = GcfRun("done", gcf.expired_files, calls,
                                Response("success", gcf.response.deleted_files,
                                         gcf.response.not_found_files, 200))
    /\ UNCHANGED <<now, blobs, task, sched, shutdown, deleteCalls>>

\* ---------------------------------------------------------- specification
\* The steps of the request handlers, meeting the backend failures in F.
Requests(T, F) ==
    \E t \in T :
        \/ \E f \in FileNames, fault \in F \cap {"none", "gcs"} : UploadStart(t, f, fault)
        \/ \E fault \in F \cap {"none", "gcs", "db", "audit"} : UploadResume(t, fault)
        \/ \E s \in Stems, ct \in ContentTypes, fault \in F \cap {"none", "gcs"} :
              DeleteStart(t, s, ct, fault)
        \/ \E fault \in F \cap {"none", "db"} : DeleteResume(t, fault)
        \/ \E fault \in F \cap {"none", "db"} : GetAllExpired(t, fault)
        \/ \E ids \in SUBSET (1..Min(Len(rows) + 1, MaxRows)),
                 fault \in F \cap {"none", "db"} :
              RemoveAllExpired(t, ids, fault)
        \/ \E fault \in F \cap {"none", "commit"} : Commit(t, fault)

\* The steps of the cleanup task the event loop runs once they are ready.
Cleanup(F) ==
    \/ \E fault \in F \cap {"none", "gcs", "db"} : SchedStart(fault)
    \/ \E fault \in F \cap {"none", "db", "commit"} : SchedSweep(fault)

\* The calls that only read, and the page tokens a caller can hold.
PageTokens == {NULL} \cup {Some(SortedNames[k]) : k \in 1..Len(SortedNames)}

Reads(T, F) ==
    \E t \in T :
        \/ \E s \in Stems, ct \in ContentTypes, fault \in F \cap {"none", "gcs"} :
              GenerateUrl(t, s, ct, fault)
        \/ \E f \in Stems \cup FileNames, ct \in UrlContentTypes,
                 fault \in F \cap {"none", "gcs"} :
              SignedUploadUrl(t, f, ct, fault)
        \/ \E n \in 1..MaxResults, page_token \in PageTokens,
                 fault \in F \cap {"none", "gcs"} :
              GetAll(t, n, page_token, fault)

Next == Requests(Tasks, Faults) \/ Cleanup(Faults) \/ Tick \/ Shutdown

Spec == Init /\ [][Next]_vars

\* The backends answer every call.
NextNoFault == Requests(Tasks, NoFaults) \/ Cleanup(NoFaults) \/ Tick \/ Shutdown

NoFaultSpec == Init /\ [][NextNoFault]_vars

\* The event loop runs the cleanup task whenever it is ready, and days pass.
FairNoFaultSpec ==
    NoFaultSpec /\ WF_vars(Cleanup(NoFaults)) /\ WF_vars(Tick)

\* The backends fail under the cleanup task only, and one request handler
\* runs beside it.
NextCleanupFault == Requests(OneTask, NoFaults) \/ Cleanup(Faults) \/ Tick \/ Shutdown

FairCleanupSpec ==
    /\ Init /\ [][NextCleanupFault]_vars
    /\ WF_vars(Cleanup(Faults)) /\ WF_vars(Tick)

\* One handler serving every operation of the service, over a bucket that may
\* hold objects the service did not upload.
ReadInit ==
    /\ now = 0
    /\ blobs \in SUBSET OtherBlobs
    /\ rows = <<>>
    /\ task = [t \in Tasks |-> Idle("", "none")]
    /\ sched = [pc |-> "due", last |-> "none"]
    /\ shutdown = FALSE
    /\ deleteCalls = [n \in FileNames |-> "none"]
    /\ gcf = GcfRun("ready", NULL, <<>>, NoResponse)

ReadNext == Requests(OneTask, Faults) \/ Reads(OneTask, Faults) \/ Tick

ReadSpec == ReadInit /\ [][ReadNext]_vars

\* The same with the backends answering every call.
ReadNextNoFault == Requests(OneTask, NoFaults) \/ Reads(OneTask, NoFaults) \/ Tick

ReadNoFaultSpec == ReadInit /\ [][ReadNextNoFault]_vars

\* The cleanup function, triggered again and again, beside one request
\* handler; the API and the blob store may fail it.
Gcf(F) ==
    \/ \E fault \in F \cap {"none", "db"} : GcfFetch(fault)
    \/ \E fault \in F \cap {"none", "gcs"} : GcfDeleteFromGcs(fault)
    \/ \E fault \in F \cap {"none", "db"} : GcfDeleteFromDatabase(fault)

GcfNext == Requests(OneTask, NoFaults) \/ Gcf(Faults) \/ Tick

GcfSpec == Init /\ [][GcfNext]_vars

\* ------------------------------------------------------------------ claims
IsLive(r) == r.deleted_at = NULL
IsDeleted(r) == r.status = "DELETED" /\ r.deleted_at # NULL
HasLiveRow(rs, name) ==
    \E i \in DOMAIN rs : rs[i].file_name = name /\ IsLive(rs[i])

\* Handler t takes a step that starts a call, out of idle.
Calls(t) == task[t].pc = "idle" /\ task'[t] # task[t]
\* ... and the call is an upload / a delete (by what the step leaves).
UploadOutcomes ==
    {"GCSFileExistsException", "DBFileExistsException", "GCSUploadException"}
DeleteOutcomes ==
    {"GCSFileDoesNotExistsException", "DBFileDoesNotExistsException",
     "GCSRemoveException"}
CallsUpload(t) ==
    /\ Calls(t)
    /\ task'[t].pc = "upload_query"
       \/ (task'[t].pc = "idle" /\ task'[t].result \in UploadOutcomes)
CallsDelete(t) ==
    /\ Calls(t)
    /\ task'[t].pc = "delete_query"
       \/ (task'[t].pc = "idle" /\ task'[t].result \in DeleteOutcomes)
\* upload returns its record to the controller.
UploadReturns(t) == task[t].pc = "upload_query" /\ task'[t].pc = "commit"
\* A request whose service call succeeded ends with its session committed.
Completes(t, result) ==
    /\ task[t].pc = "commit" /\ task[t].result = result
    /\ task'[t].pc = "idle" /\ task'[t].result = result

\* C1: in every reachable state there is at most one live row (deleted_at
\* NULL) for a (bucket_name, file_name) pair.
C1_AtMostOneLiveRow ==
    \A i, j \in DOMAIN rows :
        (/\ IsLive(rows[i]) /\ IsLive(rows[j])
         /\ rows[i].file_name = rows[j].file_name
         /\ rows[i].bucket_name = rows[j].bucket_name) => i = j

\* C2: whenever upload returns a record, the blob is in the bucket and the
\* record is a live UPLOADED row the metadata store takes.
C2_UploadReturnAgrees ==
    [][\A t \in Tasks :
          UploadReturns(t) =>
             /\ task[t].name \in blobs'
             /\ Len(task'[t].new) = 1
             /\ task'[t].new[1].file_name = task[t].name
             /\ task'[t].new[1].status = "UPLOADED"
             /\ IsLive(task'[t].new[1])
             /\ task'[t].new[1].gcs_uri # NULL]_vars

\* C3: whenever a delete request ends in success, the blob is absent, the row
\* it found is DELETED with deleted_at set, and no live row of that name is left.
C3_DeleteSuccessReflected ==
    [][\A t \in Tasks :
          Completes(t, "deleted") =>
             /\ task[t].name \notin blobs'
             /\ \A i \in task[t].upd : IsDeleted(rows'[i])
             /\ ~HasLiveRow(rows', task[t].name)]_vars

\* C4: an upload of a name whose blob exists fails with
\* GCSFileExistsException; one that finds a live row of the name fails with
\* DBFileExistsException; neither goes on to write; and a successful upload
\* request leaves a live row of its name, so that the next upload is refused.
C4_SecondUploadRefused ==
    [][\A t \in Tasks :
          /\ (CallsUpload(t) /\ task'[t].name \in blobs) =>
                (task'[t].pc = "idle" /\ task'[t].result = "GCSFileExistsException")
          /\ (task[t].pc = "upload_query" /\ task'[t] # task[t]
                /\ HasLiveRow(rows, task[t].name)) =>
                (/\ task'[t].pc = "idle"
                 /\ task'[t].result = "DBFileExistsException"
                 /\ blobs' = blobs)
          /\ Completes(t, "FileModel") => HasLiveRow(rows', task[t].name)]_vars

\* C4 witness: an upload was refused for the live row alone (no blob).
C4_RowConflictSeen ==
    \E t \in Tasks :
        /\ task[t].pc = "idle" /\ task[t].result = "DBFileExistsException"
        /\ task[t].name \notin blobs
        /\ HasLiveRow(rows, task[t].name)

\* C5: a delete call on a name that an earlier delete call has already taken
\* past its blob step, with no upload step on the name since, fails with
\* GCSFileDoesNotExistsException.
C5_SecondDeleteNotFound ==
    [][\A t \in Tasks :
          (CallsDelete(t) /\ deleteCalls[task'[t].name] # "none") =>
             (/\ task'[t].pc = "idle"
              /\ task'[t].result = "GCSFileDoesNotExistsException")]_vars

\* C5 witness: two delete calls in a row on a name whose row the first one
\* soft-deleted, the later one refused.
C5_SecondDeleteSeen ==
    \E t \in Tasks :
        /\ task[t].pc = "idle"
        /\ task[t].result = "GCSFileDoesNotExistsException"
        /\ deleteCalls[task[t].name] = "many"
        /\ \E i \in DOMAIN rows :
              rows[i].file_name = task[t].name /\ IsDeleted(rows[i])

\* C6: once a row's deleted_at is set, no step clears or changes it.
C6_DeletedAtSetOnce ==
    [][\A i \in DOMAIN rows :
          rows[i].deleted_at # NULL =>
             rows'[i].deleted_at = rows[i].deleted_at]_vars

\* C7: with the cleanup task running and the backends answering, every
\* expired live row is eventually DELETED with deleted_at set (or the
\* application shuts down).
C7_ExpiredEventuallyReclaimed ==
    \A i \in 1..MaxRows :
        (i \in DOMAIN rows /\ i \in ExpiredLiveIds(rows, now))
           ~> (shutdown \/ (i \in DOMAIN rows /\ IsDeleted(rows[i])))

\* C8: a sweep pass that ends leaves every row that was expired and live
\* DELETED with deleted_at set, and none of their blobs in the bucket.
C8_SweepReclaimsAll ==
    [][(sched.pc = "query" /\ sched'.pc = "sleep") =>
          \A i \in DOMAIN rows :
             (rows[i].expires_at < now /\ IsLive(rows[i])) =>
                (IsDeleted(rows'[i]) /\ rows[i].file_name \notin blobs')]_vars

\* C9: no failure inside a pass ends the cleanup task: a failed pass is
\* followed by the sleep, the sleep by the next loop turn, and that by the
\* next pass, unless the task is cancelled.
C9_LoopSurvivesFailure ==
    /\ [](sched.pc # "crashed")
    /\ (sched.pc = "sleep" /\ sched.last = "failed") ~> (sched.pc = "due" \/ shutdown)
    /\ (sched.pc = "due") ~> (sched.pc \in {"query", "sleep"} \/ shutdown)

\* C9 witness: the task sleeps after a pass that failed.
C9_FailedPassSeen == sched.pc = "sleep" /\ sched.last = "failed"

\* C10: once the lifespan has cancelled the cleanup task, the task is ended
\* and takes no further step.
C10_CancelEndsTask ==
    /\ [](shutdown => sched.pc = "cancelled")
    /\ [][shutdown => sched' = sched]_vars

\* C10 witness: the task was cancelled in its sleep.
C10_CancelledInSleep ==
    shutdown /\ sched.pc = "cancelled" /\ sched.last = "sleep"

\* C11: an upload that found no conflict and wrote its blob returns its
\* record, whether or not the audit event could be written.
C11_AuditFailureHarmless ==
    [][\A t \in Tasks :
          (/\ task[t].pc = "upload_query" /\ task'[t] # task[t]
           /\ task[t].name \notin blobs /\ task[t].name \in blobs') =>
             (/\ task'[t].pc = "commit"
              /\ task'[t].result = "FileModel"
              /\ Len(task'[t].new) = 1)]_vars

\* What the five public operations hand back, and the typed errors.
PublicResults ==
    {"FileModel", "deleted", "DownloadURLResponse", "UploadURLResponse",
     "GetAllGCSData"}
AlreadyExistsErrors == {"GCSFileExistsException", "DBFileExistsException"}
NotFoundErrors == {"GCSFileDoesNotExistsException", "DBFileDoesNotExistsException"}
ServiceUnavailableErrors ==
    {"GCSUploadException", "GCSRemoveException", "GenerateURLException",
     "GCSDataFetchException"}
\* Outcomes of get_all_expired and remove_all_expired, which are none of the five.
ReclaimOutcomes == {"ExpiredFilesResponse", "removed", "DBError"}

\* C12: a call of upload, delete, generate_url, signed_upload_url or get_all
\* ends in its result, in a typed AlreadyExists / NotFound error or in a
\* ServiceUnavailable error; upload and delete, once past their query, end in
\* their own errors only.
C12_TypedErrorsOnly ==
    [][\A t \in Tasks :
          /\ (/\ task'[t] # task[t] /\ task'[t].pc = "idle"
              /\ task[t].pc # "commit"
              /\ task'[t].result \notin ReclaimOutcomes) =>
                task'[t].result \in PublicResults \cup AlreadyExistsErrors
                                      \cup NotFoundErrors \cup ServiceUnavailableErrors
          /\ (task[t].pc = "upload_query" /\ task'[t].pc = "idle") =>
                task'[t].result \in {"DBFileExistsException", "GCSUploadException"}
          /\ (task[t].pc = "delete_query" /\ task'[t].pc = "idle") =>
                task'[t].result \in {"DBFileDoesNotExistsException",
                                     "GCSRemoveException"}]_vars

\* C13: get_all_expired returns exactly the rows with expires_at < now and
\* deleted_at NULL, and when its request has ended every row it returned is
\* DELETED with deleted_at set, so that the next call does not return it.
C13_ExpiredScanExact ==
    [][\A t \in Tasks :
          /\ (/\ task[t].pc = "idle" /\ task'[t].pc = "commit"
              /\ task'[t].result = "ExpiredFilesResponse") =>
                task'[t].upd = {i \in DOMAIN rows :
                                   rows[i].expires_at < now /\ IsLive(rows[i])}
          /\ Completes(t, "ExpiredFilesResponse") =>
                \A i \in task[t].upd : IsDeleted(rows'[i])]_vars

\* C13 witness: a call returns an expired live row and leaves out an expired
\* row that was reclaimed before.
C13_LiveReturnedDeletedNot ==
    \E t \in Tasks :
        /\ task[t].pc = "commit" /\ task[t].result = "ExpiredFilesResponse"
        /\ task[t].upd # {}
        /\ \A i \in task[t].upd : rows[i].expires_at < now /\ IsLive(rows[i])
        /\ \E j \in DOMAIN rows \ task[t].upd :
              rows[j].expires_at < now /\ IsDeleted(rows[j])

\* C14: a row is inserted with status UPLOADED and deleted_at NULL, no step
\* changes a status except to DELETED, a DELETED row stays DELETED, and in
\* every state a row is DELETED exactly when its deleted_at is set.
C14_StatusMachine ==
    /\ [](\A i \in DOMAIN rows :
             /\ rows[i].status \in {"UPLOADED", "DELETED"}
             /\ rows[i].status = "DELETED" <=> rows[i].deleted_at # NULL)
    /\ [][/\ \A i \in DOMAIN rows :
                /\ i \in DOMAIN rows'
                /\ rows'[i].status # rows[i].status => rows'[i].status = "DELETED"
                /\ rows[i].status = "DELETED" => rows'[i].status = "DELETED"
          /\ \A i \in DOMAIN rows' \ DOMAIN rows :
                rows'[i].status = "UPLOADED" /\ rows'[i].deleted_at = NULL]_vars

\* C14 witness: a DELETED row that one more reclamation is about to write, next
\* to a row that is UPLOADED and live.
C14_BothStatusesSeen ==
    \E i, j \in DOMAIN rows, t \in Tasks :
        /\ IsDeleted(rows[i])
        /\ task[t].pc = "commit" /\ i \in task[t].upd
        /\ rows[j].status = "UPLOADED" /\ IsLive(rows[j])

\* C15: no step removes a row or moves it to another id, and a row that
\* exists changes in status and deleted_at only.
C15_RowsOnlyGrow ==
    [][/\ Len(rows') >= Len(rows)
       /\ \A i \in DOMAIN rows :
             /\ i \in DOMAIN rows'
             /\ rows'[i].file_name = rows[i].file_name
             /\ rows'[i].bucket_name = rows[i].bucket_name
             /\ rows'[i].created_at = rows[i].created_at
             /\ [rows'[i] EXCEPT !.status = rows[i].status,
                                 !.deleted_at = rows[i].deleted_at] = rows[i]]_vars

\* C15 witness: a delete has soft-deleted a row and a later upload has added
\* a row of the same name beside it.
C15_DeletedRowKept ==
    \E i, j \in DOMAIN rows :
        /\ i < j
        /\ rows[i].file_name = rows[j].file_name
        /\ IsDeleted(rows[i]) /\ IsLive(rows[j])
        /\ \E t \in Tasks : task[t].pc = "idle" /\ task[t].result = "deleted"

\* The objects of the bucket that the listing has after a page token.
AfterToken(bs, token) ==
    {b \in bs : token = NULL \/ Pos(b) > Pos(token[1])}

\* The names a caller collects who lists with page size n from `token` on and
\* follows every token it is given, over a bucket that stays as it is.
RECURSIVE Traversal(_, _, _)
Traversal(bs, n, token) ==
    LET listed == list_blobs(bs, token, n)
    IN IF listed.next_page_token = NULL
       THEN listed.items
       ELSE listed.items \o Traversal(bs, n, listed.next_page_token)

C18_ExpiresSevenDaysAfterCreated ==
    \A i \in DOMAIN rows :
        /\ rows[i].created_at # NULL
        /\ rows[i].expires_at = rows[i].created_at[1] + RetentionDays

\* A step in which handler t runs the call `op`, which only reads.
Runs(t, op) == task'[t] # task[t] /\ task'[t].reply.op = op

\* C19: generate_url raises GCSFileDoesNotExistsException exactly when no
\* blob has the resolved name and returns a URL otherwise, whatever the rows
\* of that name are, and changes neither the bucket nor the rows.
C19_DownloadUrlBlobOnly ==
    [][\A t \in Tasks :
          Runs(t, "generate_url") =>
             LET name == ResolvedName(task'[t].reply.asked[1], task'[t].reply.asked[2])
             IN /\ blobs' = blobs /\ rows' = rows
                /\ task'[t].pc = "idle"
                /\ task'[t].new = <<>> /\ task'[t].upd = {}
                /\ name \notin blobs <=>
                      task'[t].result = "GCSFileDoesNotExistsException"
                /\ name \in blobs <=> task'[t].result = "DownloadURLResponse"]_vars

\* C19 witness: a download URL for a blob whose only row is soft-deleted.
C19_UrlForDeletedRow ==
    \E t \in Tasks :
        /\ task[t].reply.op = "generate_url"
        /\ task[t].result = "DownloadURLResponse"
        /\ ~HasLiveRow(rows, task[t].name)
        /\ \E i \in DOMAIN rows :
              rows[i].file_name = task[t].name /\ IsDeleted(rows[i])

\* C20: signed_upload_url returns its URL whatever blob or row the name has,
\* and changes neither the bucket nor the rows nor the session.
C20_UploadUrlTouchesNothing ==
    [][\A t \in Tasks :
          Runs(t, "signed_upload_url") =>
             /\ task'[t].result = "UploadURLResponse"
             /\ blobs' = blobs /\ rows' = rows
             /\ task'[t].pc = "idle"
             /\ task'[t].new = <<>> /\ task'[t].upd = {}]_vars

\* C20 witness: an upload URL for a name that has a blob and a live row.
C20_UrlForExistingName ==
    \E t \in Tasks :
        /\ task[t].reply.op = "signed_upload_url"
        /\ task[t].result = "UploadURLResponse"
        /\ task[t].reply.asked[1] \in blobs
        /\ HasLiveRow(rows, task[t].reply.asked[1])

\* A step in which handler t enters delete (and not a call that only reads).
EntersDelete(t) == CallsDelete(t) /\ task'[t].reply.op = ""

\* C21: delete and generate_url work on file_name + extension, which is the
\* name an uploaded file carries; a delete of a name that has its blob and a
\* live row goes through, marks one live row of exactly that name and no
\* other row, and the delete call after it fails with
\* GCSFileDoesNotExistsException.
C21_ResolvedNameRoundTrip ==
    [][\A t \in Tasks :
          /\ (EntersDelete(t) \/ Runs(t, "generate_url")) =>
                task'[t].name \in FileNames
          /\ (EntersDelete(t) /\ task'[t].name \in blobs
                /\ HasLiveRow(rows, task'[t].name)) =>
                (task'[t].pc = "delete_query" /\ task'[t].name \notin blobs')
          /\ (task[t].pc = "delete_query" /\ task'[t] # task[t]
                /\ HasLiveRow(rows, task[t].name)) =>
                (/\ task'[t].pc = "commit" /\ task'[t].result = "deleted"
                 /\ Cardinality(task'[t].upd) = 1
                 /\ \A i \in task'[t].upd :
                       rows[i].file_name = task[t].name /\ IsLive(rows[i]))
          /\ Completes(t, "deleted") =>
                \A i \in DOMAIN rows :
                   IF i \in task[t].upd THEN IsDeleted(rows'[i])
                                        ELSE rows'[i] = rows[i]
          /\ (EntersDelete(t) /\ task'[t].name \in FileNames
                /\ deleteCalls[task'[t].name] # "none") =>
                task'[t].result = "GCSFileDoesNotExistsException"]_vars

\* C21 witness: upload of r.pdf, delete("r", application/pdf) gone through,
\* and the delete after it refused.
C21_DeletedByBareName ==
    \E t \in Tasks :
        /\ task[t].pc = "idle"
        /\ task[t].result = "GCSFileDoesNotExistsException"
        /\ task[t].reply.op = ""
        /\ task[t].name = "r.pdf"
        /\ deleteCalls["r.pdf"] = "many"
        /\ Len(rows) = 1 /\ IsDeleted(rows[1]) /\ rows[1].file_name = "r.pdf"
        /\ "r.pdf" \notin blobs

\* C22: an upload that has passed the blob check and whose SELECT finds no
\* committed live row writes the blob and returns its record whatever another
\* handler has done since, and its commit inserts the row; so two uploads of
\* one name that both passed the checks both succeed.
C22_CheckedUploadGoesThrough ==
    [][\A t \in Tasks :
          /\ (task[t].pc = "upload_query" /\ task'[t] # task[t]
                /\ ~HasLiveRow(rows, task[t].name)) =>
                (/\ task'[t].pc = "commit" /\ task'[t].result = "FileModel"
                 /\ Len(task'[t].new) = 1
                 /\ task'[t].new[1].file_name = task[t].name
                 /\ task[t].name \in blobs')
          /\ Completes(t, "FileModel") =>
                (/\ Len(rows') = Len(rows) + 1
                 /\ IsLive(rows'[Len(rows')])
                 /\ rows'[Len(rows')].file_name = task[t].name)]_vars

\* C22 witness: two uploads of one name, both returned, neither committed.
C22_BothUploadsReturned ==
    /\ \A t \in Tasks :
          /\ task[t].pc = "commit" /\ task[t].result = "FileModel"
          /\ Len(task[t].new) = 1
    /\ task["t1"].name = task["t2"].name
    /\ task["t1"].name \in blobs
    /\ rows = <<>>

\* C23: upload looks at the blob store first: a call for a name whose blob
\* exists raises GCSFileExistsException without issuing the SELECT; a call
\* past that check whose SELECT finds a live row raises DBFileExistsException;
\* either way the handler's session is empty and the step leaves the blobs
\* and every row as they were.
C23_ConflictLeavesNoTrace ==
    [][\A t \in Tasks :
          /\ (CallsUpload(t) /\ task'[t].name \in blobs) =>
                task'[t] = Idle(task'[t].name, "GCSFileExistsException")
          /\ (task[t].pc = "upload_query" /\ task'[t] # task[t]
                /\ HasLiveRow(rows, task[t].name)) =>
                task'[t] = Idle(task[t].name, "DBFileExistsException")
          /\ (task'[t] # task[t] /\ task'[t].pc = "idle"
                /\ task'[t].result = "GCSFileExistsException") =>
                (/\ task[t].pc = "idle" /\ task'[t].name \in blobs
                 /\ blobs' = blobs /\ rows' = rows)
          /\ (task'[t] # task[t] /\ task'[t].pc = "idle"
                /\ task'[t].result = "DBFileExistsException") =>
                (/\ task[t].pc = "upload_query"
                 /\ HasLiveRow(rows, task[t].name)
                 /\ blobs' = blobs /\ rows' = rows)]_vars

\* C23 witness: an upload refused for the live row of a name without a blob.
C23_RefusedForRowOnly ==
    \E t \in Tasks :
        /\ task[t] = Idle(task[t].name, "DBFileExistsException")
        /\ task[t].name \notin blobs
        /\ HasLiveRow(rows, task[t].name)

\* C24: a delete of a name without a blob raises GCSFileDoesNotExistsException
\* at once and changes no row, a live row of that name included; a delete of
\* a name with a blob removes the blob first, and when its SELECT then finds
\* no live row it raises DBFileDoesNotExistsException, putting no blob back
\* and changing no row.
C24_DeleteFailureStates ==
    [][\A t \in Tasks :
          /\ (EntersDelete(t) /\ task'[t].name \notin blobs) =>
                (/\ task'[t] = Idle(task'[t].name, "GCSFileDoesNotExistsException")
                 /\ rows' = rows /\ blobs' = blobs)
          /\ (EntersDelete(t) /\ task'[t].name \in blobs) =>
                (/\ task'[t].pc = "delete_query"
                 /\ blobs' = blobs \ {task'[t].name}
                 /\ rows' = rows)
          /\ (task[t].pc = "delete_query" /\ task'[t] # task[t]
                /\ ~HasLiveRow(rows, task[t].name)) =>
                (/\ task'[t] = Idle(task[t].name, "DBFileDoesNotExistsException")
                 /\ rows' = rows /\ blobs' = blobs)]_vars

\* C24 witness: a delete that took the blob of a name whose only row was
\* already DELETED, and then failed for the missing record.
C24_BlobGoneRecordMissing ==
    \E t \in Tasks :
        /\ task[t] = Idle(task[t].name, "DBFileDoesNotExistsException")
        /\ task[t].name \notin blobs
        /\ rows # <<>>
        /\ \A i \in DOMAIN rows :
              rows[i].file_name = task[t].name /\ IsDeleted(rows[i])

\* Handler t is in an upload request: in the call, or past it with the
\* session still to commit.
InUpload(t) ==
    \/ task[t].pc = "upload_query"
    \/ task[t].pc = "commit" /\ task[t].new # <<>>

\* C25: an upload that raises GCSUploadException leaves its session empty and
\* the table as it was, and takes no blob away, so a blob it wrote stays; a
\* failing commit of an upload leaves table and blobs as they were; a step of
\* an upload request changes the table only when the request ends in success.
C25_FailedUploadPersistsNoRow ==
    [][\A t \in Tasks :
          /\ (task[t].pc = "upload_query" /\ task'[t].pc = "idle"
                /\ task'[t].result = "GCSUploadException") =>
                (/\ task'[t].new = <<>>
                 /\ rows' = rows
                 /\ blobs \subseteq blobs')
          /\ (InUpload(t) /\ task'[t].pc = "idle"
                /\ task'[t].result = "CommitError") =>
                (rows' = rows /\ blobs' = blobs)
          /\ (InUpload(t) /\ task'[t] # task[t] /\ rows' # rows) =>
                (task'[t].pc = "idle" /\ task'[t].result = "FileModel")]_vars

\* C25 witness: the upload failed after the blob was written; the blob is
\* there and the table is empty.
C25_OrphanBlobNoRow ==
    \E t \in Tasks :
        /\ task[t] = Idle(task[t].name, "GCSUploadException")
        /\ task[t].name \in blobs
        /\ rows = <<>>

\* What get_all_expired and remove_all_expired return.
ReclaimResults == {"ExpiredFilesResponse", "removed"}

\* C26: get_all_expired and remove_all_expired, from their call to their
\* commit, leave every blob as it is and only mark rows; get_all from the
\* start of the listing gives every blob of the bucket and generate_url gives
\* a URL for every blob, whatever the rows say.
C26_ReclaimKeepsBlobs ==
    [][\A t \in Tasks :
          /\ (Calls(t) /\ task'[t].pc = "commit"
                /\ task'[t].result \in ReclaimResults) =>
                (blobs' = blobs /\ rows' = rows)
          /\ (\E r \in ReclaimResults : Completes(t, r)) =>
                (/\ blobs' = blobs
                 /\ Len(rows') = Len(rows)
                 /\ \A i \in DOMAIN rows :
                       /\ rows'[i].file_name = rows[i].file_name
                       /\ i \in task[t].upd => IsDeleted(rows'[i]))
          /\ (Runs(t, "get_all") /\ task'[t].result = "GetAllGCSData"
                /\ task'[t].reply.asked[2] = NULL
                /\ task'[t].reply.asked[1] >= Cardinality(blobs)) =>
                {task'[t].reply.files[k] : k \in DOMAIN task'[t].reply.files} = blobs
          /\ (Runs(t, "generate_url") /\ task'[t].name \in blobs) =>
                (/\ task'[t].result = "DownloadURLResponse"
                 /\ task'[t].reply.url # NULL
                 /\ task'[t].reply.url[1].name = task'[t].name)]_vars

\* C26 witness: the row of r.pdf was marked DELETED while its blob was
\* there, and get_all lists the blob.
C26_ReclaimedBlobListed ==
    \E t \in Tasks :
        /\ task[t].reply.op = "get_all"
        /\ \E k \in DOMAIN task[t].reply.files : task[t].reply.files[k] = "r.pdf"
        /\ "r.pdf" \in blobs
        /\ Len(rows) = 1 /\ rows[1].file_name = "r.pdf" /\ IsDeleted(rows[1])

\* The cleanup task runs a pass from its SELECT's answer on.
SweepPass ==
    sched.pc = "query" /\ sched' # sched /\ sched'.pc # "cancelled"

\* Row r is out of a pass's reach at time t: not yet expired, or DELETED.
OutOfReach(r, t) == r.expires_at >= t \/ r.deleted_at # NULL

C29_SweptRowMarked ==
    [][SweepPass =>
          \A i \in DOMAIN rows :
             (/\ IsLive(rows[i])
              /\ rows[i].file_name \in blobs
              /\ rows[i].file_name \notin blobs') =>
                (i \in DOMAIN rows' /\ IsDeleted(rows'[i]))]_vars

\* Row r is blocked: live, with no blob under its name.
Blocked(r) == IsLive(r) /\ r.file_name \notin blobs

\* An upload of a blocked name is refused for the row and a delete for the
\* blob, the rows staying as they are.
BlockedNameRefuses ==
    \A t \in Tasks :
       /\ (task[t].pc = "upload_query" /\ task'[t] # task[t]
             /\ task[t].name \notin blobs /\ HasLiveRow(rows, task[t].name)) =>
             (/\ task'[t] = Idle(task[t].name, "DBFileExistsException")
              /\ rows' = rows /\ blobs' = blobs)
       /\ (EntersDelete(t) /\ task'[t].name \notin blobs
             /\ HasLiveRow(rows, task'[t].name)) =>
             (/\ task'[t] = Idle(task'[t].name, "GCSFileDoesNotExistsException")
              /\ rows' = rows /\ blobs' = blobs)

\* The step is the commit of get_all_expired or remove_all_expired, or a
\* sweep pass.
ReclaimStep ==
    \/ \E t \in Tasks, r \in ReclaimResults : Completes(t, r)
    \/ SweepPass

\* A delete of `name` has taken the blob and has not committed yet.
DeleteUnderWay(name) ==
    \E t \in Tasks :
        /\ task[t].name = name
        /\ task[t].pc = "delete_query" \/ (task[t].pc = "commit" /\ task[t].result = "deleted")

\* C30: a blocked name refuses uploads (for the row) and deletes (for the
\* blob) and its row stays live; a blocked row stops being live in a
\* reclamation step only. A row whose blob is missing because a delete of the
\* name is under way is not blocked: that delete's commit marks it.
C30_BlockedUntilReclaimed ==
    [][/\ BlockedNameRefuses
       /\ \A i \in DOMAIN rows :
             (/\ Blocked(rows[i]) /\ ~IsLive(rows'[i])
              /\ ~DeleteUnderWay(rows[i].file_name)) => ReclaimStep]_vars

\* C30 witness: with no request under way, a delete of the blocked name was
\* refused for the missing blob and the row is still live.
C30_DeleteRefusedRowLive ==
    /\ \A t \in Tasks : task[t].pc = "idle"
    /\ \E t \in Tasks :
          /\ task[t] = Idle(task[t].name, "GCSFileDoesNotExistsException")
          /\ task[t].name \in FileNames
          /\ deleteCalls[task[t].name] # "none"
          /\ \E i \in DOMAIN rows :
                rows[i].file_name = task[t].name /\ Blocked(rows[i])

\* C31: the commit of remove_all_expired(ids) changes only rows that were
\* expired and live when the call was made: a listed row that is not yet
\* expired or is already DELETED stays as it is, and the call returns its
\* message whatever the ids are.
C31_RemoveOnlyReclaimable ==
    [][\A t \in Tasks :
          /\ Completes(t, "removed") =>
                (/\ Len(rows') = Len(rows)
                 /\ \A i \in DOMAIN rows :
                       rows'[i] # rows[i] =>
                          (/\ rows[i].expires_at < task[t].ts
                           /\ rows[i].deleted_at = NULL))
          /\ (Calls(t) /\ task'[t].result = "removed") =>
                (task'[t].pc = "commit" /\ rows' = rows)]_vars

\* C32: a run of delete_expired_files whose fetch reported no expired file
\* ends there, with 'No expired files to delete.' and status 200, having
\* called neither delete_from_gcs nor delete_from_database; a run calls
\* delete_from_gcs before delete_from_database; and a run ends with a
\* response, 500 when a step failed.
C32_NothingExpiredNothingCalled ==
    /\ (gcf.expired_files # NULL /\ gcf.expired_files[1].id = <<>>) =>
          (/\ gcf.pc = "done"
           /\ gcf.calls = <<"fetch_expired_files">>
           /\ gcf.response = Response("No expired files to delete.", <<>>, <<>>, 200))
    /\ \E k \in 0..3 :
          gcf.calls = SubSeq(<<"fetch_expired_files", "delete_from_gcs",
                               "delete_from_database">>, 1, k)
    /\ gcf.pc = "done" => gcf.response.status \in {200, 500}

====
